---- MODULE Spec2Model ----
(***************************************************************************)
(* A model of nvidia-dev-ctl.py: the bounded-retry Waiter (Waiter.wait),   *)
(* and the reservation restore loop (DevCtl.restore_mdev) running on the   *)
(* lazily cached Inventory (DevCtl.mdev_devices, DevCtl.mdev_device_classes*)
(* MdevDeviceClass.supported_mdev_types) over the mdev pseudo-filesystem.  *)
(*                                                                         *)
(* Strings are sequences of one-character strings, so that strip, find and *)
(* split are computed as Python computes them.                             *)
(*                                                                         *)
(* The restore runs on a well-formed pseudo-filesystem: the class root and *)
(* the device root exist and every attribute file reads as its type, so    *)
(* the scans and MdevType.update do not raise; the pseudo-filesystem is    *)
(* changed only by this tool's writes to create files.  The path-wait hook *)
(* (DevCtl.wait_for_device_path) then answers at once and its result is    *)
(* dropped by the scanners (lines 76, 91), so it has no step of its own in *)
(* the restore.  SaveSpec runs save_mdev and then the restore on the file  *)
(* it wrote; PciSpec runs each_pci_device_and_path, each poll of its hook  *)
(* calls a step, while other processes add to the bus; AccessSpec runs the *)
(* accessors of the Inventory on a pseudo-filesystem that other processes  *)
(* change and whose attribute files may fail to read.  Operators named     *)
(* M_... are faulty variants of the operator that follows them; the        *)
(* properties are required to tell them apart.                             *)
(***************************************************************************)
EXTENDS Integers, Sequences, FiniteSets, TLC

\* ------------------------------------------------------------------ bounds

\* Largest trial budget (--trials) the Waiter is started with.
MaxTrials == 4

\* Polls of the predicate a run of the model follows (num_trials = 0 polls
\* without end in the code); always more than any budget needs.
MaxPolls == MaxTrials + 2

\* Largest number of lines of a reservation file.
MaxLines == 2

\* Largest available_instances a type starts with.
MaxAvail == 2

VARIABLES
    \* ---- the mdev pseudo-filesystem (external)
    fsDevices,      \* entries of /sys/bus/mdev/devices: a set of UUIDs
    fsDevType,      \* UUID -> the <<class, type>> its real path lies under
    fsAvail,        \* <<class, type>> -> content of its available_instances
    \* ---- DevCtl (the Inventory) of the running invocation
    cached_mdev_devices,          \* self._mdev_devices
    cached_mdev_device_classes,   \* self._mdev_device_classes
    cached_supported_mdev_types,  \* class -> its _supported_mdev_types
    \* ---- DevCtl.restore_mdev
    input_file,     \* the lines of the reservation file
    pos,            \* lines of input_file read so far by this invocation
    result,         \* local result of restore_mdev
    r_pc,           \* "running", "returned" (line 493), "aborted" (line 439)
    run,            \* "first" or "second" invocation of the restore command
    log,            \* history: one entry per line read by this invocation
    log1,           \* history: the log of the first invocation
    creates,        \* history: the create(uuid) calls of this invocation
    avail_at_start, \* history: fsAvail when this invocation started
    \* ---- DevCtl.save_mdev
    output_file,    \* the lines save_mdev wrote (none before the save)
    \* ---- each_pci_device_and_path
    pciRoot,        \* whether /sys/bus/pci/devices exists
    pciVendor,      \* PCI device -> its vendor file (external)
    vendor_arg,     \* the vendor argument of the call
    vendor,         \* local vendor, after lines 97-98
    pci_listing,    \* sorted(os.listdir(PCI_BUS_DEVICE_PATH)) of line 103
    pci_pos,        \* entries of pci_listing the loop has visited
    yielded,        \* history: the devices yielded, in order
    hook_results,   \* history: path, answer and sleeps of each path_waiter call
    p_pc,           \* "start", "hook", "list", "loop", "test", "done",
                    \* "error" (listdir raised)
    wait_for_device,\* self.wait_for_device (--wait)
    hook_path,      \* the path the running path_waiter call is for
    hook_trial,     \* local trial of the PathWaiter of that call
    hook_sleeps,    \* time.sleep calls made inside that call
    hook_next,      \* where the scan goes on when that call returns
    tested,         \* history: each visited device's vendor file as line 114 saw it
    pci_changed,    \* history: another process changed the bus during the scan
    \* ---- accesses to the Inventory on a changing pseudo-filesystem
    fsUnreadable,   \* <<class, type>> whose attribute files cannot be read
    hooked,         \* history: paths the wait-hook was invoked on
    touched,        \* history: pseudo-filesystem accesses of the Inventory
    scans,          \* history: map -> the listings its scans have read
    raised,         \* whether the last access raised
    \* ---- Waiter.wait
    num_trials,     \* self.num_trials
    trial,          \* local trial
    w_result,       \* local result of wait
    w_pc,           \* "check" (line 297), "sleep" (line 307), "done" (line 308)
    check_value,    \* what check_func() answers when called now (environment)
    answers,        \* history: the answers check_func has given, in call order
    sleeps          \* history: number of time.sleep calls made

w_vars == <<num_trials, trial, w_result, w_pc, check_value, answers, sleeps>>

r_vars == <<fsDevices, fsDevType, fsAvail, cached_mdev_devices, cached_mdev_device_classes,
            cached_supported_mdev_types, input_file, pos, result, r_pc, run,
            log, log1, creates, avail_at_start>>

s_vars == <<output_file>>

p_vars == <<pciRoot, pciVendor, vendor_arg, vendor, pci_listing, pci_pos,
            yielded, hook_results, p_pc, wait_for_device, hook_path, hook_trial,
            hook_sleeps, hook_next, tested, pci_changed>>

i_vars == <<fsUnreadable, hooked, touched, scans, raised>>

\* The restore command's own variables.
run_vars == <<input_file, pos, result, r_pc, run, log, log1, creates, avail_at_start>>

\* What the steps of the Waiter, of the restore, of the save, of the PCI
\* scan and of the Inventory accesses leave alone.
not_w_vars == <<r_vars, s_vars, p_vars, i_vars>>
not_r_vars == <<w_vars, s_vars, p_vars, i_vars>>
not_s_vars == <<w_vars, p_vars, i_vars>>
not_p_vars == <<r_vars, w_vars, s_vars, i_vars>>
not_i_vars == <<run_vars, w_vars, s_vars, p_vars>>

vars == <<r_vars, w_vars, s_vars, p_vars, i_vars>>

\* ------------------------------------------------------- Python strings

\* The characters str.strip() and str.split() treat as whitespace (lines 432,
\* 437): every character c with c.isspace().  A character that a TLA+ string
\* can hold stands as itself; the others stand by their code point, one
\* sequence element each.
Whitespace ==
    {" ", "\t", "\n", "\r", "\f",
     "U+000B", "U+001C", "U+001D", "U+001E", "U+001F", "U+0085",
     "U+00A0", "U+1680", "U+2000", "U+2001", "U+2002", "U+2003",
     "U+2004", "U+2005", "U+2006", "U+2007", "U+2008", "U+2009",
     "U+200A", "U+2028", "U+2029", "U+202F", "U+205F", "U+3000"}

RECURSIVE lstrip(_)
lstrip(s) ==
    IF s # <<>> /\ Head(s) \in Whitespace THEN lstrip(Tail(s)) ELSE s

RECURSIVE rstrip(_)
rstrip(s) ==
    IF s # <<>> /\ s[Len(s)] \in Whitespace
    THEN rstrip(SubSeq(s, 1, Len(s) - 1)) ELSE s

\* str.strip(): line 432.
strip(s) == rstrip(lstrip(s))

\* str.find(c): the 0-based index of the first c in s, or -1 (line 433).
find(s, c) ==
    IF \E i \in 1..Len(s) : s[i] = c
    THEN (CHOOSE i \in 1..Len(s) : s[i] = c /\ \A j \in 1..(i - 1) : s[j] # c) - 1
    ELSE -1

\* s[:n] for 0 <= n <= len(s): line 435.
slice_to(s, n) == SubSeq(s, 1, n)

\* str.split(): the maximal runs of non-whitespace characters (line 437).
RECURSIVE split_from(_, _, _)
split_from(s, cur, acc) ==
    IF s = <<>>
    THEN IF cur = <<>> THEN acc ELSE Append(acc, cur)
    ELSE IF Head(s) \in Whitespace
         THEN split_from(Tail(s), <<>>, IF cur = <<>> THEN acc ELSE Append(acc, cur))
         ELSE split_from(Tail(s), Append(cur, Head(s)), acc)

split(s) == split_from(s, <<>>, <<>>)

\* ord(c) of the characters the model writes.
ord(c) ==
    CASE c = "\t" -> 9
      [] c = "\n" -> 10
      [] c = " " -> 32
      [] c = "#" -> 35
      [] c = "-" -> 45
      [] c = "." -> 46
      [] c = "0" -> 48
      [] c = "1" -> 49
      [] c = "2" -> 50
      [] c = "3" -> 51
      [] c = "4" -> 52
      [] c = "5" -> 53
      [] c = "6" -> 54
      [] c = "7" -> 55
      [] c = "8" -> 56
      [] c = "9" -> 57
      [] c = "D" -> 68
      [] c = "E" -> 69
      [] c = "I" -> 73
      [] c = "M" -> 77
      [] c = "R" -> 82
      [] c = "T" -> 84
      [] c = "U" -> 85
      [] c = "V" -> 86
      [] c = "a" -> 97
      [] c = "b" -> 98
      [] c = "c" -> 99
      [] c = "d" -> 100
      [] c = "e" -> 101
      [] c = "f" -> 102
      [] c = "g" -> 103
      [] c = "h" -> 104
      [] c = "i" -> 105
      [] c = "l" -> 108
      [] c = "n" -> 110
      [] c = "o" -> 111
      [] c = "p" -> 112
      [] c = "q" -> 113
      [] c = "r" -> 114
      [] c = "s" -> 115
      [] c = "t" -> 116
      [] c = "u" -> 117
      [] c = "v" -> 118
      [] c = "x" -> 120
      [] c = "y" -> 121
      [] c = "z" -> 122

\* s < t for Python strings: by code points, a proper prefix first.
RECURSIVE str_lt(_, _)
str_lt(s, t) ==
    IF t = <<>> THEN FALSE
    ELSE IF s = <<>> THEN TRUE
    ELSE IF Head(s) # Head(t) THEN ord(Head(s)) < ord(Head(t))
    ELSE str_lt(Tail(s), Tail(t))

\* sorted(S) for a set of strings (lines 77, 85, 92, 103).
RECURSIVE sorted(_)
sorted(S) ==
    IF S = {} THEN <<>>
    ELSE LET least == CHOOSE x \in S : \A y \in S \ {x} : str_lt(x, y)
         IN <<least>> \o sorted(S \ {least})

\* ------------------------------------------------ the pseudo-filesystem

\* Identities are strings: UUIDs, class PCI addresses, type names.
UuidA == <<"a">>
UuidB == <<"b">>
ClassP == <<"p">>       \* listed under /sys/class/mdev_bus
ClassQ == <<"q">>       \* not listed
TypeX == <<"x">>        \* listed under p/mdev_supported_types
TypeY == <<"y">>        \* listed under p/mdev_supported_types
TypeZ == <<"z">>        \* not listed

UUIDs == {UuidA, UuidB}

\* The type directories of the class root: <<class, type>>.
TypePaths == {<<ClassP, TypeX>>, <<ClassP, TypeY>>}

\* os.listdir(MDEV_BUS_CLASS_PATH): lines 74-78.
each_mdev_device_class_pci_address == {tp[1] : tp \in TypePaths}

\* os.listdir(<class>/mdev_supported_types): lines 81-86.
each_supported_mdev_type_and_path(pci_address) ==
    {tp[2] : tp \in {q \in TypePaths : q[1] = pci_address}}

\* os.listdir(MDEV_BUS_DEVICE_PATH): lines 89-93.
M_each_mdev_device_uuid_class_root(devices) == each_mdev_device_class_pci_address
each_mdev_device_uuid(devices) == devices

\* ------------------------------------------------------- the Inventory

\* A lazily loaded map that has not been loaded (None).
NotLoaded == [loaded |-> FALSE, keys |-> {}]

NoTypes == [loaded |-> FALSE, types |-> [t \in {} |-> 0]]

\* DevCtl.mdev_devices: scanned on first access, then the cached map.
M_mdev_devices_rescan(cache, devices) ==
    [loaded |-> TRUE, keys |-> each_mdev_device_uuid(devices)]
mdev_devices(cache, devices) ==
    IF ~cache.loaded
    THEN [loaded |-> TRUE, keys |-> each_mdev_device_uuid(devices)]
    ELSE cache

\* DevCtl.mdev_device_classes: scanned on first access, then the cached map.
mdev_device_classes(cache) ==
    IF ~cache.loaded
    THEN [loaded |-> TRUE, keys |-> each_mdev_device_class_pci_address]
    ELSE cache

\* MdevType.update (from MdevType.__init__): the type's available_instances
\* as the pseudo-filesystem holds it, read as an int.
MdevType_update(avail, pci_address, mdev_type) == avail[<<pci_address, mdev_type>>]

\* MdevType.create, line 154: after the write the type's attributes are read
\* again; `types` is the class's cached map, `avail` the pseudo-filesystem
\* after the write.
M_create_without_update(types, avail, pci_address, mdev_type) == types
MdevType_create_update(types, avail, pci_address, mdev_type) ==
    [types EXCEPT !.types[mdev_type] = MdevType_update(avail, pci_address, mdev_type)]

\* MdevDeviceClass.supported_mdev_types: scanned on first access, one
\* MdevType (with its attributes read) per listed type; then the cached map.
supported_mdev_types(cache, pci_address, avail) ==
    IF ~cache.loaded
    THEN [loaded |-> TRUE,
          types |-> [t \in each_supported_mdev_type_and_path(pci_address) |->
                        MdevType_update(avail, pci_address, t)]]
    ELSE cache

\* --------------------------------------------------- reservation files

\* save_mdev's data line: "{}\t{}\t{}\n" (line 426).
M_FormatLine_swapped(uuid, pci_address, mdev_type) ==
    pci_address \o <<"\t">> \o uuid \o <<"\t">> \o mdev_type \o <<"\n">>
FormatLine(uuid, pci_address, mdev_type) ==
    uuid \o <<"\t">> \o pci_address \o <<"\t">> \o mdev_type \o <<"\n">>

CommentLine == <<"#", " ", "r", "\n">>
BlankLine == <<" ", "\n">>
\* " b p x #r\n": a record followed by a comment.
CommentedLine ==
    <<" ">> \o UuidB \o <<" ">> \o ClassP \o <<" ">> \o TypeX \o <<" ", "#", "r", "\n">>
TwoTokenLine == UuidA \o <<" ">> \o ClassP \o <<"\n">>
\* "\fa\fp U+00A0 y\f\n": a record separated by form feeds and a no-break
\* space.
FormFeedLine ==
    <<"\f">> \o UuidA \o <<"\f">> \o ClassP \o <<" ", "U+00A0">> \o TypeY \o <<"\f", "\n">>

\* The lines reservation files are made of.
LineSet ==
    { FormatLine(UuidA, ClassP, TypeX),
      FormatLine(UuidB, ClassP, TypeX),
      FormatLine(UuidA, ClassP, TypeY),     \* a UUID pointed at another type
      FormatLine(UuidB, ClassQ, TypeX),     \* unknown class
      FormatLine(UuidB, ClassP, TypeZ),     \* unknown type
      CommentLine,
      BlankLine,
      CommentedLine,
      TwoTokenLine,
      FormFeedLine }

RECURSIVE SeqsUpTo(_, _)
SeqsUpTo(S, n) ==
    IF n = 0 THEN {<<>>}
    ELSE LET shorter == SeqsUpTo(S, n - 1)
         IN shorter \cup {Append(f, x) : f \in {g \in shorter : Len(g) = n - 1}, x \in S}

Files == SeqsUpTo(LineSet, MaxLines)

\* Lines 432-435: the line stripped, and cut at its first '#'.
M_ContentOf_keeps_comment(line) == strip(line)
ContentOf(line) ==
    LET stripped == strip(line)
        comment_pos == find(stripped, "#")
    IN IF comment_pos # -1 THEN slice_to(stripped, comment_pos) ELSE stripped

\* ------------------------------------------------- DevCtl.restore_mdev

\* Line 444: the record's UUID is a key of the cached device map.
M_NeverRegistered(uuid, devices) == FALSE
AlreadyRegistered(uuid, devices) == uuid \in devices.keys

\* Line 448: the record's class is not a key of the class map.
UnknownClass(pci_address, classes) == pci_address \notin classes.keys

\* Line 454: the record's type is not one of the class's supported types.
UnknownType(mdev_type_name, types) == mdev_type_name \notin DOMAIN types.types

\* Line 464: the type has no available instances.
M_NoCapacityOnlyBelowZero(available_instances) == available_instances < 0
M_NoCapacityOffByOne(available_instances) == available_instances <= 1
NoCapacity(available_instances) == available_instances <= 0

\* What writing a UUID to a type's create file can do (external): the device
\* is made when it is new and the type has room; the write can always fail
\* with PermissionError or with another OSError.
CreateOutcomes(uuid, pci_address, mdev_type) ==
    {"PermissionError", "OSError"} \cup
    (IF uuid \notin fsDevices /\ fsAvail[<<pci_address, mdev_type>>] > 0
     THEN {"created"} ELSE {})

\* Lines 450, 461, 472, 484, 492: a failed record sets the result.
M_FailureForgotten(r) == r
FailureResult(r) == 1

\* What restore_mdev does after a failed record: `continue` (lines 451, 462,
\* 473) or the end of the except clause: the loop goes on.
M_StopAfterFailure == "returned"
AfterFailure == "running"

\* Lines 438-441: a line of other than three tokens raises
\* InvalidMdevFileFormat out of restore_mdev: the loop is left.
M_MalformedSkipped == "running"
AfterMalformed == "aborted"

\* The history entry of a line that holds no record.
NoRecord(kind) ==
    [kind |-> kind, uuid |-> <<>>, pci_address |-> <<>>, mdev_type |-> <<>>,
     inInventory |-> FALSE, inFs |-> FALSE, classKnown |-> FALSE,
     typeKnown |-> FALSE, available |-> 0, outcome |-> "none",
     resultAfter |-> result]

RestoreInit ==
    /\ fsDevices \in SUBSET UUIDs
    /\ fsDevType = [u \in fsDevices |-> <<ClassP, TypeX>>]
    /\ fsAvail \in {[tp \in TypePaths |-> a] : a \in 0..MaxAvail}
    /\ cached_mdev_devices = NotLoaded
    /\ cached_mdev_device_classes = NotLoaded
    /\ cached_supported_mdev_types = [c \in each_mdev_device_class_pci_address |-> NoTypes]
    /\ input_file \in Files
    /\ avail_at_start = fsAvail
    /\ pos = 0
    /\ result = 0
    /\ r_pc = "running"
    /\ run = "first"
    /\ log = <<>>
    /\ log1 = <<>>
    /\ creates = <<>>

\* Lines 431-436: a line that is empty after stripping and comment removal.
RestoreBlankLine ==
    /\ r_pc = "running"
    /\ pos < Len(input_file)
    /\ ContentOf(input_file[pos + 1]) = <<>>
    /\ pos' = pos + 1
    /\ log' = Append(log, NoRecord("blank"))
    /\ UNCHANGED <<fsDevices, fsDevType, fsAvail, cached_mdev_devices,
                   cached_mdev_device_classes, cached_supported_mdev_types,
                   input_file, avail_at_start, result, r_pc, run, log1, creates>>

\* Lines 437-441: a line that does not split into three tokens raises
\* InvalidMdevFileFormat, which main turns into exit code 1.
M_RestoreMalformedLine_rollback ==
    /\ r_pc = "running"
    /\ pos < Len(input_file)
    /\ ContentOf(input_file[pos + 1]) # <<>>
    /\ Len(split(ContentOf(input_file[pos + 1]))) # 3
    /\ pos' = pos + 1
    /\ r_pc' = AfterMalformed
    /\ log' = Append(log, NoRecord("malformed"))
    /\ fsDevices' = fsDevices \ {creates[k].uuid : k \in 1..Len(creates)}
    /\ fsDevType' = [u \in fsDevices' |-> fsDevType[u]]
    /\ UNCHANGED <<fsAvail, cached_mdev_devices,
                   cached_mdev_device_classes, cached_supported_mdev_types,
                   input_file, avail_at_start, result, run, log1, creates>>
RestoreMalformedLine ==
    /\ r_pc = "running"
    /\ pos < Len(input_file)
    /\ ContentOf(input_file[pos + 1]) # <<>>
    /\ Len(split(ContentOf(input_file[pos + 1]))) # 3
    /\ pos' = pos + 1
    /\ r_pc' = AfterMalformed
    /\ log' = Append(log, NoRecord("malformed"))
    /\ UNCHANGED <<fsDevices, fsDevType, fsAvail, cached_mdev_devices,
                   cached_mdev_device_classes, cached_supported_mdev_types,
                   input_file, avail_at_start, result, run, log1, creates>>

\* Lines 442-492: a line holding a record (uuid, pci_address, mdev_type_name).
RestoreRecord ==
    /\ r_pc = "running"
    /\ pos < Len(input_file)
    /\ ContentOf(input_file[pos + 1]) # <<>>
    /\ Len(split(ContentOf(input_file[pos + 1]))) = 3
    /\ LET mdev_reservation == split(ContentOf(input_file[pos + 1]))
           uuid == mdev_reservation[1]
           pci_address == mdev_reservation[2]
           mdev_type_name == mdev_reservation[3]
           devices == mdev_devices(cached_mdev_devices, fsDevices)
           classes == mdev_device_classes(cached_mdev_device_classes)
           classKnown == pci_address \in classes.keys
           types == IF classKnown
                    THEN supported_mdev_types(cached_supported_mdev_types[pci_address],
                                              pci_address, fsAvail)
                    ELSE NoTypes
           typeKnown == mdev_type_name \in DOMAIN types.types
           entry(kind, outcome, res) ==
               [kind |-> kind, uuid |-> uuid, pci_address |-> pci_address,
                mdev_type |-> mdev_type_name,
                inInventory |-> uuid \in devices.keys,
                inFs |-> uuid \in fsDevices,
                classKnown |-> classKnown, typeKnown |-> typeKnown,
                available |-> IF typeKnown THEN types.types[mdev_type_name] ELSE 0,
                outcome |-> outcome, resultAfter |-> res]
       IN
       /\ pos' = pos + 1
       /\ cached_mdev_devices' = devices                          \* line 443
       /\ IF AlreadyRegistered(uuid, devices)
          THEN \* lines 444-446
               /\ log' = Append(log, entry("registered", "none", result))
               /\ UNCHANGED <<fsDevices, fsDevType, fsAvail, cached_mdev_device_classes,
                              cached_supported_mdev_types, result, r_pc, creates>>
          ELSE
          /\ cached_mdev_device_classes' = classes                \* line 447
          /\ IF UnknownClass(pci_address, classes)
             THEN \* lines 448-451
                  /\ result' = FailureResult(result)
                  /\ r_pc' = AfterFailure
                  /\ log' = Append(log, entry("noclass", "none", result'))
                  /\ UNCHANGED <<fsDevices, fsDevType, fsAvail, cached_supported_mdev_types, creates>>
             ELSE IF UnknownType(mdev_type_name, types)
             THEN \* lines 453-462
                  /\ cached_supported_mdev_types' =
                         [cached_supported_mdev_types EXCEPT ![pci_address] = types]
                  /\ result' = FailureResult(result)
                  /\ r_pc' = AfterFailure
                  /\ log' = Append(log, entry("notype", "none", result'))
                  /\ UNCHANGED <<fsDevices, fsDevType, fsAvail, creates>>
             ELSE IF NoCapacity(types.types[mdev_type_name])
             THEN \* lines 464-473
                  /\ cached_supported_mdev_types' =
                         [cached_supported_mdev_types EXCEPT ![pci_address] = types]
                  /\ result' = FailureResult(result)
                  /\ r_pc' = AfterFailure
                  /\ log' = Append(log, entry("nocap", "none", result'))
                  /\ UNCHANGED <<fsDevices, fsDevType, fsAvail, creates>>
             ELSE \* lines 474-492: mdev_type.create(uuid)
                  /\ creates' = Append(creates,
                         [line |-> pos + 1, uuid |-> uuid, pci_address |-> pci_address,
                          mdev_type |-> mdev_type_name, existed |-> uuid \in fsDevices])
                  /\ \E outcome \in CreateOutcomes(uuid, pci_address, mdev_type_name) :
                     IF outcome = "created"
                     THEN \* lines 152-154: the write, then update()
                          /\ fsDevices' = fsDevices \cup {uuid}
                          /\ fsDevType' = [u \in fsDevices' |->
                                 IF u = uuid THEN <<pci_address, mdev_type_name>>
                                 ELSE fsDevType[u]]
                          /\ fsAvail' = [fsAvail EXCEPT ![<<pci_address, mdev_type_name>>] = @ - 1]
                          /\ cached_supported_mdev_types' =
                                 [cached_supported_mdev_types EXCEPT ![pci_address] =
                                     MdevType_create_update(types, fsAvail', pci_address,
                                                            mdev_type_name)]
                          /\ log' = Append(log, entry("create", outcome, result))
                          /\ UNCHANGED <<result, r_pc>>
                     ELSE \* lines 476-492: the write raised
                          /\ cached_supported_mdev_types' =
                                 [cached_supported_mdev_types EXCEPT ![pci_address] = types]
                          /\ result' = FailureResult(result)
                          /\ r_pc' = AfterFailure
                          /\ log' = Append(log, entry("create", outcome, result'))
                          /\ UNCHANGED <<fsDevices, fsDevType, fsAvail>>
    /\ UNCHANGED <<input_file, avail_at_start, run, log1>>

\* Line 493: the file is read to its end.
RestoreReturn ==
    /\ r_pc = "running"
    /\ pos = Len(input_file)
    /\ r_pc' = "returned"
    /\ UNCHANGED <<fsDevices, fsDevType, fsAvail, cached_mdev_devices,
                   cached_mdev_device_classes, cached_supported_mdev_types,
                   input_file, avail_at_start, pos, result, run, log, log1, creates>>

\* main, lines 613-620: the exit code of a finished restore command.
ExitCode == IF r_pc = "aborted" THEN 1 ELSE result

\* A second run of the command on the same file: a new process, so a new
\* DevCtl with nothing cached (lines 608, 327-328), over the pseudo-filesystem
\* as the first run left it.
Reinvoke ==
    /\ run = "first"
    /\ r_pc \in {"returned", "aborted"}
    /\ run' = "second"
    /\ cached_mdev_devices' = NotLoaded
    /\ cached_mdev_device_classes' = NotLoaded
    /\ cached_supported_mdev_types' = [c \in each_mdev_device_class_pci_address |-> NoTypes]
    /\ pos' = 0
    /\ result' = 0
    /\ r_pc' = "running"
    /\ log1' = log
    /\ log' = <<>>
    /\ creates' = <<>>
    /\ avail_at_start' = fsAvail
    /\ UNCHANGED <<fsDevices, fsDevType, fsAvail, input_file>>

\* --------------------------------------------------- DevCtl.save_mdev

\* "# MDEV UUID Reservation\n" (line 422).
HeaderLine1 ==
    <<"#", " ", "M", "D", "E", "V", " ", "U", "U", "I", "D", " ",
      "R", "e", "s", "e", "r", "v", "a", "t", "i", "o", "n", "\n">>

\* "# This file is auto-generated by nvidia-dev-ctl.py\n" (line 423).
HeaderLine2 ==
    <<"#", " ", "T", "h", "i", "s", " ", "f", "i", "l", "e", " ",
      "i", "s", " ", "a", "u", "t", "o", "-", "g", "e", "n", "e",
      "r", "a", "t", "e", "d", " ", "b", "y", " ", "n", "v", "i",
      "d", "i", "a", "-", "d", "e", "v", "-", "c", "t", "l", ".",
      "p", "y", "\n">>

\* MdevDevice.pci_address (line 252): the directory above the device's real
\* path; MdevDevice.mdev_type.type (lines 141, 259): the name of the real
\* path of its mdev_type link.
MdevDevice_pci_address(uuid) == fsDevType[uuid][1]
MdevDevice_mdev_type(uuid) == fsDevType[uuid][2]

\* The cached devices in the order of the map: the order of the sorted scan
\* that filled it (lines 92, 356-357).
mdev_devices_values(cache) == sorted(cache.keys)

\* Lines 422-427: the two header lines, then one line per cached device.
save_mdev(cache) ==
    LET values == mdev_devices_values(cache)
    IN <<HeaderLine1, HeaderLine2>> \o
       [i \in 1..Len(values) |->
           FormatLine(values[i], MdevDevice_pci_address(values[i]),
                      MdevDevice_mdev_type(values[i]))]

\* A UUID of two characters, and where devices lie: under a type of the
\* class root, or under a class that the class root does not list.
UuidAB == <<"a", "b">>
SaveUUIDs == UUIDs \cup {UuidAB}
\* Type names with a blank and with a '#' in them.
TypeSpaced == <<"x", " ", "y">>
TypeHashed == <<"x", "#">>
DevLocs ==
    TypePaths \cup {<<ClassQ, TypeZ>>, <<ClassQ, TypeSpaced>>, <<ClassQ, TypeHashed>>}

SaveInit ==
    /\ fsDevices \in SUBSET SaveUUIDs
    /\ fsDevType \in [fsDevices -> DevLocs]
    /\ fsAvail \in {[tp \in TypePaths |-> a] : a \in 0..MaxAvail}
    /\ cached_mdev_devices = NotLoaded
    /\ cached_mdev_device_classes = NotLoaded
    /\ cached_supported_mdev_types = [c \in each_mdev_device_class_pci_address |-> NoTypes]
    /\ input_file = <<>>
    /\ avail_at_start = fsAvail
    /\ pos = 0
    /\ result = 0
    /\ r_pc = "idle"
    /\ run = "first"
    /\ log = <<>>
    /\ log1 = <<>>
    /\ creates = <<>>
    /\ output_file = <<>>

\* The save command: a DevCtl of its own (line 608) scans the device root
\* and writes the file; the process ends.
SaveMdev ==
    /\ r_pc = "idle"
    /\ output_file = <<>>
    /\ output_file' = save_mdev(mdev_devices(NotLoaded, fsDevices))
    /\ UNCHANGED r_vars

\* The restore command started on the file that save wrote.
RestoreSaved ==
    /\ r_pc = "idle"
    /\ output_file # <<>>
    /\ input_file' = output_file
    /\ avail_at_start' = fsAvail
    /\ r_pc' = "running"
    /\ UNCHANGED <<fsDevices, fsDevType, fsAvail, cached_mdev_devices,
                   cached_mdev_device_classes, cached_supported_mdev_types,
                   pos, result, run, log, log1, creates, output_file>>

\* ------------------------------------------ Waiter.wait: its decisions

\* Line 300: a positive budget counts trials, anything else polls for ever.
M_BudgetCountsZero(n) == n >= 0
BudgetCounted(n) == n > 0

\* Line 302: the budget is used up once trial exceeds it.
M_BudgetSpentEarly(t, n) == t >= n
BudgetSpent(t, n) == t > n

\* Line 296: the loop runs while result is false (also left by the breaks).
M_LoopIgnoresResult(r) == FALSE
LoopExit(r) == r

\* --------------------------------------------- each_pci_device_and_path

\* str.startswith(prefix) (line 97).
startswith(s, prefix) ==
    Len(s) >= Len(prefix) /\ SubSeq(s, 1, Len(prefix)) = prefix

\* str.rstrip("\n") (lines 116, 163, 243).
RECURSIVE rstrip_newline(_)
rstrip_newline(s) ==
    IF s # <<>> /\ s[Len(s)] = "\n"
    THEN rstrip_newline(SubSeq(s, 1, Len(s) - 1))
    ELSE s

\* Line 25.
NVIDIA_VENDOR == <<"1", "0", "d", "e">>

\* Lines 97-98: a filter that lacks the "0x" prefix gets it; no filter (None
\* or "", here <<>>) stays none.
M_vendor_as_given(v) == v
normalize_vendor(v) ==
    IF v # <<>> /\ ~startswith(v, <<"0", "x">>) THEN <<"0", "x">> \o v ELSE v

\* Lines 330-338 with PathWaiter.wait (lines 293-308): what one poll of
\* DevCtl.wait_for_device_path makes of the answer of os.path.exists(path).
\* With waiting disabled the answer is returned (line 337); with waiting
\* enabled a true answer is returned, a false one is returned once the
\* budget is spent and is followed by a sleep and another poll otherwise.
\* `t` is the trial count before the poll, `n` the budget.
wait_for_device_path(wait, exists, t, n) ==
    IF exists THEN "true"
    ELSE IF ~wait THEN "false"
    ELSE IF BudgetCounted(n) /\ BudgetSpent(t + 1, n) THEN "false"
    ELSE "sleep"

\* A device directory's vendor file.
NoVendorFile == [exists |-> FALSE, content |-> <<>>]
VendorContents ==
    {<<"0", "x", "1", "0", "d", "e", "\n">>,
     <<"0", "x", "8", "0", "8", "6", "\n">>,
     <<"1", "0", "d", "e", "\n">>,
     <<"0", "x", "1", "0", "d", "e">>}
VendorFiles ==
    {NoVendorFile} \cup {[exists |-> TRUE, content |-> c] : c \in VendorContents}

PciNames == {<<"0">>, <<"0", "1">>, <<"1">>}
VendorArgs == {<<>>, NVIDIA_VENDOR, <<"0", "x">> \o NVIDIA_VENDOR}

\* The paths of the PCI scan.
PciRootPath == <<"pci">>
PciDevPath(dev) == <<"pci", dev>>
PciVendorPath(dev) == <<"pci", dev, "vendor">>

\* os.path.exists of a path of the PCI scan.
PciPathExists(path) ==
    IF Len(path) = 1 THEN pciRoot
    ELSE IF Len(path) = 2 THEN pciRoot /\ path[2] \in DOMAIN pciVendor
    ELSE pciRoot /\ path[2] \in DOMAIN pciVendor /\ pciVendor[path[2]].exists

\* No path_waiter call is running.
NoHook ==
    /\ hook_path = <<>>
    /\ hook_trial = 0
    /\ hook_sleeps = 0
    /\ hook_next = "none"

PciInit ==
    /\ pciRoot \in BOOLEAN
    /\ pciVendor \in UNION {[D -> VendorFiles] : D \in SUBSET PciNames}
    /\ ~pciRoot => DOMAIN pciVendor = {}
    /\ vendor_arg \in VendorArgs
    /\ vendor = vendor_arg
    /\ wait_for_device \in BOOLEAN
    /\ pci_listing = <<>>
    /\ pci_pos = 0
    /\ yielded = <<>>
    /\ hook_results = <<>>
    /\ tested = <<>>
    /\ pci_changed = FALSE
    /\ NoHook
    /\ p_pc = "start"

\* Lines 97-101: the filter is normalized and the hook is called for the bus
\* path.
PciStart ==
    /\ p_pc = "start"
    /\ vendor' = normalize_vendor(vendor)
    /\ p_pc' = "hook"
    /\ hook_path' = PciRootPath
    /\ hook_next' = "list"
    /\ UNCHANGED <<pciRoot, pciVendor, vendor_arg, pci_listing, pci_pos, yielded,
                   hook_results, wait_for_device, hook_trial, hook_sleeps,
                   tested, pci_changed>>

\* One poll of the running path_waiter call (lines 330-338, 296-307): the
\* path is tested; the call returns, its answer dropped by the scan (lines
\* 101, 107, 112), or sleeps before the next poll.  When the call for a
\* device path returns, the call for the device's vendor path follows at
\* once (lines 109-112).
PciHookPoll ==
    /\ p_pc = "hook"
    /\ LET poll == wait_for_device_path(wait_for_device, PciPathExists(hook_path),
                                        hook_trial, num_trials)
       IN IF poll = "sleep"
          THEN /\ hook_trial' = IF BudgetCounted(num_trials)
                                THEN hook_trial + 1 ELSE hook_trial
               /\ hook_sleeps' = hook_sleeps + 1
               /\ UNCHANGED <<hook_results, hook_path, hook_next, p_pc>>
          ELSE /\ hook_results' = Append(hook_results,
                      [path |-> hook_path, result |-> (poll = "true"),
                       sleeps |-> hook_sleeps])
               /\ hook_trial' = 0
               /\ hook_sleeps' = 0
               /\ IF hook_next = "vendor"
                  THEN /\ hook_path' = PciVendorPath(hook_path[2])
                       /\ hook_next' = "test"
                       /\ UNCHANGED p_pc
                  ELSE /\ hook_path' = <<>>
                       /\ hook_next' = "none"
                       /\ p_pc' = hook_next
    /\ UNCHANGED <<pciRoot, pciVendor, vendor_arg, vendor, pci_listing, pci_pos,
                   yielded, wait_for_device, tested, pci_changed>>

\* Line 103: the bus path is listed; listing an absent path raises
\* FileNotFoundError.
PciList ==
    /\ p_pc = "list"
    /\ IF pciRoot
       THEN /\ pci_listing' = sorted(DOMAIN pciVendor)
            /\ p_pc' = "loop"
       ELSE /\ p_pc' = "error"
            /\ UNCHANGED pci_listing
    /\ UNCHANGED <<pciRoot, pciVendor, vendor_arg, vendor, pci_pos, yielded,
                   hook_results, wait_for_device, hook_path, hook_trial,
                   hook_sleeps, hook_next, tested, pci_changed>>

\* Lines 103-107: the next entry of the listing; the hook is called for the
\* device path.
PciVisit ==
    /\ p_pc = "loop"
    /\ pci_pos < Len(pci_listing)
    /\ p_pc' = "hook"
    /\ hook_path' = PciDevPath(pci_listing[pci_pos + 1])
    /\ hook_next' = "vendor"
    /\ UNCHANGED <<pciRoot, pciVendor, vendor_arg, vendor, pci_listing, pci_pos,
                   yielded, hook_results, wait_for_device, hook_trial,
                   hook_sleeps, tested, pci_changed>>

\* Lines 114-119: the device is skipped when a filter is given, the vendor
\* file exists and its content without trailing newlines differs from the
\* filter; it is yielded otherwise.
PciTest ==
    /\ p_pc = "test"
    /\ LET dev == pci_listing[pci_pos + 1]
           file == pciVendor[dev]
       IN /\ tested' = Append(tested, [dev |-> dev, file |-> file])
          /\ IF vendor # <<>> /\ file.exists
                 /\ rstrip_newline(file.content) # vendor
             THEN UNCHANGED yielded
             ELSE yielded' = Append(yielded, dev)
    /\ pci_pos' = pci_pos + 1
    /\ p_pc' = "loop"
    /\ UNCHANGED <<pciRoot, pciVendor, vendor_arg, vendor, pci_listing,
                   hook_results, wait_for_device, hook_path, hook_trial,
                   hook_sleeps, hook_next, pci_changed>>

\* The listing is exhausted: the generator returns.
PciReturn ==
    /\ p_pc = "loop"
    /\ pci_pos = Len(pci_listing)
    /\ p_pc' = "done"
    /\ UNCHANGED <<pciRoot, pciVendor, vendor_arg, vendor, pci_listing, pci_pos,
                   yielded, hook_results, wait_for_device, hook_path, hook_trial,
                   hook_sleeps, hook_next, tested, pci_changed>>

\* Other processes, while the scan runs (external): the bus path appears, a
\* device appears on the bus, a device's vendor file appears.
PciBusAppears ==
    /\ p_pc \notin {"done", "error"}
    /\ ~pciRoot
    /\ pciRoot' = TRUE
    /\ pci_changed' = TRUE
    /\ UNCHANGED <<pciVendor, vendor_arg, vendor, pci_listing, pci_pos, yielded,
                   hook_results, p_pc, wait_for_device, hook_path, hook_trial,
                   hook_sleeps, hook_next, tested>>

PciDeviceAppears(dev, file) ==
    /\ p_pc \notin {"done", "error"}
    /\ pciRoot
    /\ dev \notin DOMAIN pciVendor
    /\ pciVendor' = [d \in DOMAIN pciVendor \cup {dev} |->
                        IF d = dev THEN file ELSE pciVendor[d]]
    /\ pci_changed' = TRUE
    /\ UNCHANGED <<pciRoot, vendor_arg, vendor, pci_listing, pci_pos, yielded,
                   hook_results, p_pc, wait_for_device, hook_path, hook_trial,
                   hook_sleeps, hook_next, tested>>

PciVendorAppears(dev, content) ==
    /\ p_pc \notin {"done", "error"}
    /\ dev \in DOMAIN pciVendor
    /\ ~pciVendor[dev].exists
    /\ pciVendor' = [pciVendor EXCEPT ![dev] = [exists |-> TRUE, content |-> content]]
    /\ pci_changed' = TRUE
    /\ UNCHANGED <<pciRoot, vendor_arg, vendor, pci_listing, pci_pos, yielded,
                   hook_results, p_pc, wait_for_device, hook_path, hook_trial,
                   hook_sleeps, hook_next, tested>>

\* ------------------------------------------ accesses to the Inventory

\* The paths the Inventory reads and writes; a type's four attribute files
\* (line 157) stand as one path.
ClassRootPath == <<"mdev_bus">>
DeviceRootPath == <<"mdev_devices">>
TypesPath(pci_address) == <<"mdev_supported_types", pci_address>>
AttrPath(pci_address, mdev_type) == <<"attributes", pci_address, mdev_type>>
CreatePath(pci_address, mdev_type) == <<"create", pci_address, mdev_type>>

\* An access to the pseudo-filesystem, with whether the wait-hook had been
\* invoked on its path when it was made.
Access(op, path, hooks) == [op |-> op, path |-> path, hooked |-> path \in hooks]

\* No scan of a map has happened.
NoScans ==
    [devices |-> <<>>, classes |-> <<>>,
     types |-> [c \in each_mdev_device_class_pci_address |-> <<>>]]

\* The path_waiter of the MdevDeviceClass objects of the class map: line 349
\* calls from_pci_address_unchecked(pci_address) without the argument, so it
\* is None (lines 218, 183), and so is that of their MdevTypes (line 193).
MdevDeviceClass_path_waiter == FALSE

\* Lines 190-193: the types are constructed in the order of the sorted
\* listing; MdevType.__init__ reads the attributes (lines 146, 156-163) and
\* raises at the first type whose attribute files cannot be read.  The
\* types whose construction was attempted, and those that were constructed:
attempted_types(pci_address, unreadable) ==
    LET listing == sorted(each_supported_mdev_type_and_path(pci_address))
    IN {listing[i] : i \in {k \in 1..Len(listing) :
            \A j \in 1..(k - 1) : <<pci_address, listing[j]>> \notin unreadable}}

constructed_types(pci_address, unreadable) ==
    {t \in attempted_types(pci_address, unreadable) :
        <<pci_address, t>> \notin unreadable}

scan_raises(pci_address, unreadable) ==
    attempted_types(pci_address, unreadable) # constructed_types(pci_address, unreadable)

\* MdevDeviceClass.supported_mdev_types (lines 186-194) when attribute files
\* may fail to read: line 189 assigns the empty map before the scan and
\* line 193 fills it type by type, so a scan that raises leaves the types
\* constructed before.
supported_mdev_types_scan(cache, pci_address, avail, unreadable) ==
    IF ~cache.loaded
    THEN [loaded |-> TRUE,
          types |-> [t \in constructed_types(pci_address, unreadable) |->
                        MdevType_update(avail, pci_address, t)]]
    ELSE cache

AccessInit ==
    /\ fsDevices \in SUBSET UUIDs
    /\ fsDevType = [u \in fsDevices |-> <<ClassP, TypeX>>]
    /\ fsAvail \in {[tp \in TypePaths |-> a] : a \in 0..MaxAvail}
    /\ fsUnreadable \in SUBSET TypePaths
    /\ cached_mdev_devices = NotLoaded
    /\ cached_mdev_device_classes = NotLoaded
    /\ cached_supported_mdev_types = [c \in each_mdev_device_class_pci_address |-> NoTypes]
    /\ hooked = {}
    /\ touched = {}
    /\ scans = NoScans
    /\ raised = FALSE

\* The restore command is not running.
RunIdle ==
    /\ input_file = <<>>
    /\ avail_at_start = fsAvail
    /\ pos = 0
    /\ result = 0
    /\ r_pc = "idle"
    /\ run = "first"
    /\ log = <<>>
    /\ log1 = <<>>
    /\ creates = <<>>

\* An access to DevCtl.mdev_devices (lines 352-358).
AccessMdevDevices ==
    LET scan == ~cached_mdev_devices.loaded
    IN /\ cached_mdev_devices' = mdev_devices(cached_mdev_devices, fsDevices)
       /\ hooked' = IF scan THEN hooked \cup {DeviceRootPath} ELSE hooked
       /\ touched' = IF scan
                     THEN touched \cup {Access("listdir", DeviceRootPath, hooked')}
                     ELSE touched
       /\ scans' = IF scan
                   THEN [scans EXCEPT !.devices = Append(@, each_mdev_device_uuid(fsDevices))]
                   ELSE scans
       /\ raised' = FALSE
       /\ UNCHANGED <<fsDevices, fsDevType, fsAvail, fsUnreadable,
                      cached_mdev_device_classes, cached_supported_mdev_types>>

\* An access to DevCtl.mdev_device_classes (lines 344-350).
AccessMdevDeviceClasses ==
    LET scan == ~cached_mdev_device_classes.loaded
    IN /\ cached_mdev_device_classes' = mdev_device_classes(cached_mdev_device_classes)
       /\ hooked' = IF scan THEN hooked \cup {ClassRootPath} ELSE hooked
       /\ touched' = IF scan
                     THEN touched \cup {Access("listdir", ClassRootPath, hooked')}
                     ELSE touched
       /\ scans' = IF scan
                   THEN [scans EXCEPT !.classes = Append(@, each_mdev_device_class_pci_address)]
                   ELSE scans
       /\ raised' = FALSE
       /\ UNCHANGED <<fsDevices, fsDevType, fsAvail, fsUnreadable,
                      cached_mdev_devices, cached_supported_mdev_types>>

\* An access to supported_mdev_types of a class of the class map (lines
\* 186-194, 81-86).
AccessSupportedMdevTypes(pci_address) ==
    /\ cached_mdev_device_classes.loaded
    /\ pci_address \in cached_mdev_device_classes.keys
    /\ LET scan == ~cached_supported_mdev_types[pci_address].loaded
           attempted == attempted_types(pci_address, fsUnreadable)
       IN /\ cached_supported_mdev_types' =
                 [cached_supported_mdev_types EXCEPT ![pci_address] =
                     supported_mdev_types_scan(@, pci_address, fsAvail, fsUnreadable)]
          /\ hooked' = IF scan /\ MdevDeviceClass_path_waiter
                       THEN hooked \cup {TypesPath(pci_address)} \cup
                            {AttrPath(pci_address, t) : t \in attempted}
                       ELSE hooked
          /\ touched' = IF scan
                        THEN touched \cup
                             {Access("listdir", TypesPath(pci_address), hooked')} \cup
                             {Access("read", AttrPath(pci_address, t), hooked') :
                                 t \in attempted}
                        ELSE touched
          /\ scans' = IF scan
                      THEN [scans EXCEPT !.types[pci_address] =
                               Append(@, each_supported_mdev_type_and_path(pci_address))]
                      ELSE scans
          /\ raised' = (scan /\ scan_raises(pci_address, fsUnreadable))
    /\ UNCHANGED <<fsDevices, fsDevType, fsAvail, fsUnreadable,
                   cached_mdev_devices, cached_mdev_device_classes>>

\* MdevType.create(uuid) on a type of a class's cached map (lines 148-154).
AccessCreate(pci_address, mdev_type, uuid) ==
    /\ cached_mdev_device_classes.loaded
    /\ pci_address \in cached_mdev_device_classes.keys
    /\ cached_supported_mdev_types[pci_address].loaded
    /\ mdev_type \in DOMAIN cached_supported_mdev_types[pci_address].types
    /\ hooked' = IF MdevDeviceClass_path_waiter
                 THEN hooked \cup {CreatePath(pci_address, mdev_type),
                                   AttrPath(pci_address, mdev_type)}
                 ELSE hooked
    /\ \E outcome \in CreateOutcomes(uuid, pci_address, mdev_type) :
          IF outcome = "created"
          THEN \* lines 152-154: the write, then update()
               /\ fsDevices' = fsDevices \cup {uuid}
               /\ fsDevType' = [u \in fsDevices' |->
                      IF u = uuid THEN <<pci_address, mdev_type>> ELSE fsDevType[u]]
               /\ fsAvail' = [fsAvail EXCEPT ![<<pci_address, mdev_type>>] = @ - 1]
               /\ cached_supported_mdev_types' =
                      [cached_supported_mdev_types EXCEPT ![pci_address] =
                          MdevType_create_update(@, fsAvail', pci_address, mdev_type)]
               /\ touched' = touched \cup
                      {Access("write", CreatePath(pci_address, mdev_type), hooked'),
                       Access("read", AttrPath(pci_address, mdev_type), hooked')}
               /\ raised' = FALSE
          ELSE \* line 152 raised
               /\ touched' = touched \cup
                      {Access("write", CreatePath(pci_address, mdev_type), hooked')}
               /\ raised' = TRUE
               /\ UNCHANGED <<fsDevices, fsDevType, fsAvail, cached_supported_mdev_types>>
    /\ UNCHANGED <<fsUnreadable, cached_mdev_devices, cached_mdev_device_classes, scans>>

\* Another process creates a device (external).
ExternalCreate(uuid, tp) ==
    /\ uuid \notin fsDevices
    /\ fsAvail[tp] > 0
    /\ fsDevices' = fsDevices \cup {uuid}
    /\ fsDevType' = [u \in fsDevices' |-> IF u = uuid THEN tp ELSE fsDevType[u]]
    /\ fsAvail' = [fsAvail EXCEPT ![tp] = @ - 1]
    /\ UNCHANGED <<fsUnreadable, cached_mdev_devices, cached_mdev_device_classes,
                   cached_supported_mdev_types, hooked, touched, scans, raised>>

\* Another process removes a device (external).
ExternalDestroy(uuid) ==
    /\ uuid \in fsDevices
    /\ fsDevices' = fsDevices \ {uuid}
    /\ fsDevType' = [u \in fsDevices' |-> fsDevType[u]]
    /\ fsAvail' = [fsAvail EXCEPT ![fsDevType[uuid]] = @ + 1]
    /\ UNCHANGED <<fsUnreadable, cached_mdev_devices, cached_mdev_device_classes,
                   cached_supported_mdev_types, hooked, touched, scans, raised>>

\* ------------------------------------------------------------ Waiter.wait

WaiterStart ==
    /\ num_trials \in -1..MaxTrials     \* --trials is any int (line 528)
    /\ trial = 0
    /\ w_result = FALSE
    /\ w_pc = "check"
    /\ check_value \in BOOLEAN
    /\ answers = <<>>
    /\ sleeps = 0

\* Lines 297-306: one call of check_func and the decision that follows it.
WaitCheck ==
    /\ w_pc = "check"
    /\ Len(answers) < MaxPolls
    /\ w_result' = check_value
    /\ answers' = Append(answers, check_value)
    /\ IF LoopExit(check_value)
       THEN /\ w_pc' = "done"
            /\ trial' = trial
       ELSE IF BudgetCounted(num_trials)
            THEN /\ trial' = trial + 1
                 /\ w_pc' = IF BudgetSpent(trial + 1, num_trials)
                            THEN "done" ELSE "sleep"
            ELSE /\ trial' = trial
                 /\ w_pc' = "sleep"
    /\ UNCHANGED <<num_trials, check_value, sleeps>>
    /\ UNCHANGED not_w_vars

\* Line 307 and the loop test of line 296 (result is false here).
WaitSleep ==
    /\ w_pc = "sleep"
    /\ sleeps' = sleeps + 1
    /\ w_pc' = "check"
    /\ UNCHANGED <<num_trials, trial, w_result, check_value, answers>>
    /\ UNCHANGED not_w_vars

\* The environment: the watched condition (the path) appears or disappears.
\* It changes only while the model still follows one more poll.
PredicateChanges ==
    /\ w_pc # "done"
    /\ Len(answers) < MaxPolls - 1
    /\ check_value' = ~check_value
    /\ UNCHANGED <<num_trials, trial, w_result, w_pc, answers, sleeps>>
    /\ UNCHANGED not_w_vars

\* No restore runs beside the Waiter's specification, and no wait beside the
\* restore's: an empty file on an empty device root, a wait not started.
RestoreIdle ==
    /\ fsDevices = {}
    /\ fsDevType = [u \in {} |-> <<>>]
    /\ fsAvail = [tp \in TypePaths |-> 0]
    /\ cached_mdev_devices = NotLoaded
    /\ cached_mdev_device_classes = NotLoaded
    /\ cached_supported_mdev_types = [c \in each_mdev_device_class_pci_address |-> NoTypes]
    /\ input_file = <<>>
    /\ avail_at_start = fsAvail
    /\ pos = 0
    /\ result = 0
    /\ r_pc = "returned"
    /\ run = "second"
    /\ log = <<>>
    /\ log1 = <<>>
    /\ creates = <<>>

WaiterIdle ==
    /\ num_trials = 3          \* the default --trials (line 528)
    /\ trial = 0
    /\ w_result = FALSE
    /\ w_pc = "done"
    /\ check_value = TRUE
    /\ answers = <<>>
    /\ sleeps = 0

SaveIdle == output_file = <<>>

PciIdle ==
    /\ pciRoot = TRUE
    /\ pciVendor = [d \in {} |-> NoVendorFile]
    /\ vendor_arg = <<>>
    /\ vendor = <<>>
    /\ pci_listing = <<>>
    /\ pci_pos = 0
    /\ yielded = <<>>
    /\ hook_results = <<>>
    /\ p_pc = "done"
    /\ wait_for_device = FALSE
    /\ tested = <<>>
    /\ pci_changed = FALSE
    /\ NoHook

\* A pseudo-filesystem whose attribute files all read, and no access made.
AccessIdle ==
    /\ fsUnreadable = {}
    /\ hooked = {}
    /\ touched = {}
    /\ scans = NoScans
    /\ raised = FALSE

WaiterInit == WaiterStart /\ RestoreIdle /\ SaveIdle /\ PciIdle /\ AccessIdle

WaiterNext == WaitCheck \/ WaitSleep \/ PredicateChanges

\* wait runs on the calling thread: a pending call or sleep does happen.
WaiterSpec ==
    WaiterInit /\ [][WaiterNext]_vars /\ WF_vars(WaitCheck) /\ WF_vars(WaitSleep)

\* ------------------------------------------------------ the restore command

Init == RestoreInit /\ WaiterIdle /\ SaveIdle /\ PciIdle /\ AccessIdle

Next ==
    \/ RestoreBlankLine /\ UNCHANGED not_r_vars
    \/ RestoreMalformedLine /\ UNCHANGED not_r_vars
    \/ RestoreRecord /\ UNCHANGED not_r_vars
    \/ RestoreReturn /\ UNCHANGED not_r_vars
    \/ Reinvoke /\ UNCHANGED not_r_vars

Spec == Init /\ [][Next]_vars

\* ------------------------------------------------- the PCI device scan

PciSpecInit == PciInit /\ RestoreIdle /\ WaiterIdle /\ SaveIdle /\ AccessIdle

PciNext ==
    \/ PciStart /\ UNCHANGED not_p_vars
    \/ PciHookPoll /\ UNCHANGED not_p_vars
    \/ PciList /\ UNCHANGED not_p_vars
    \/ PciVisit /\ UNCHANGED not_p_vars
    \/ PciTest /\ UNCHANGED not_p_vars
    \/ PciReturn /\ UNCHANGED not_p_vars
    \/ PciBusAppears /\ UNCHANGED not_p_vars
    \/ \E dev \in PciNames, file \in VendorFiles :
          PciDeviceAppears(dev, file) /\ UNCHANGED not_p_vars
    \/ \E dev \in PciNames, content \in VendorContents :
          PciVendorAppears(dev, content) /\ UNCHANGED not_p_vars

PciSpec == PciSpecInit /\ [][PciNext]_vars

\* --------------------------------------- the Inventory under accesses

AccessSpecInit == AccessInit /\ RunIdle /\ WaiterIdle /\ SaveIdle /\ PciIdle

AccessNext ==
    \/ AccessMdevDevices /\ UNCHANGED not_i_vars
    \/ AccessMdevDeviceClasses /\ UNCHANGED not_i_vars
    \/ \E c \in each_mdev_device_class_pci_address :
          AccessSupportedMdevTypes(c) /\ UNCHANGED not_i_vars
    \/ \E tp \in TypePaths, u \in UUIDs :
          AccessCreate(tp[1], tp[2], u) /\ UNCHANGED not_i_vars
    \/ \E u \in UUIDs, tp \in TypePaths :
          ExternalCreate(u, tp) /\ UNCHANGED not_i_vars
    \/ \E u \in UUIDs : ExternalDestroy(u) /\ UNCHANGED not_i_vars

AccessSpec == AccessSpecInit /\ [][AccessNext]_vars

\* ------------------------------------------------- save, then restore

SaveSpecInit == SaveInit /\ WaiterIdle /\ PciIdle /\ AccessIdle

SaveNext ==
    \/ SaveMdev /\ UNCHANGED not_s_vars
    \/ RestoreSaved /\ UNCHANGED not_s_vars
    \/ RestoreBlankLine /\ UNCHANGED not_r_vars
    \/ RestoreMalformedLine /\ UNCHANGED not_r_vars
    \/ RestoreRecord /\ UNCHANGED not_r_vars
    \/ RestoreReturn /\ UNCHANGED not_r_vars

SaveSpec == SaveSpecInit /\ [][SaveNext]_vars

\* ------------------------------------------------ claims on Waiter.wait

AllFalse(s) == \A i \in 1..Len(s) : ~s[i]

\* With a positive budget and only false answers so far: a sleep follows
\* each failed call but the last, which ends the wait with result false.
C1_SleepsFollowCalls ==
    (num_trials > 0 /\ AllFalse(answers)) =>
        /\ Len(answers) <= num_trials + 1
        /\ w_pc = "check" => sleeps = Len(answers) /\ Len(answers) <= num_trials
        /\ w_pc = "sleep" => sleeps = Len(answers) - 1 /\ Len(answers) <= num_trials
        /\ w_pc = "done" =>
              /\ ~w_result
              /\ Len(answers) = num_trials + 1
              /\ sleeps = num_trials

\* C1: with num_trials = N > 0 and a predicate that is false on every call,
\* wait terminates and returns false after exactly N+1 predicate calls and
\* exactly N sleeps: one sleep follows each of the first N failed calls and
\* none follows the last.
C1_ExhaustedBudget ==
    /\ []C1_SleepsFollowCalls
    /\ (num_trials > 0 /\ []~check_value) => <>(w_pc = "done" /\ ~w_result)

C1_Witness ==
    /\ num_trials = 3 /\ w_pc = "done" /\ ~w_result
    /\ answers = <<FALSE, FALSE, FALSE, FALSE>> /\ sleeps = 3

\* C2: wait stops on the first true answer: when the predicate first answers
\* true on its k-th call, wait has returned true after exactly k calls and
\* k-1 sleeps, and no call or sleep follows that answer.
C2_StopsOnFirstTrue ==
    \A k \in 1..Len(answers) :
        answers[k] =>
            /\ Len(answers) = k
            /\ w_pc = "done"
            /\ w_result
            /\ sleeps = k - 1
            /\ num_trials > 0 => k <= num_trials + 1

C2_Witness ==
    /\ num_trials = 3 /\ w_pc = "done" /\ w_result
    /\ answers = <<FALSE, TRUE>> /\ sleeps = 1

\* With num_trials = 0 wait is never done with result false, and while the
\* answers are false it is polling, one sleep between consecutive calls.
C3_NeverFalse ==
    num_trials = 0 =>
        /\ ~(w_pc = "done" /\ ~w_result)
        /\ AllFalse(answers) =>
              /\ w_pc \in {"check", "sleep"}
              /\ w_pc = "check" => sleeps = Len(answers)
              /\ w_pc = "sleep" => sleeps = Len(answers) - 1

\* C3: with num_trials = 0 wait never returns false: while the predicate is
\* false it keeps polling, one sleep between consecutive calls, and if the
\* predicate becomes true (and stays so) wait returns true.
C3_PollsForever ==
    /\ []C3_NeverFalse
    /\ (num_trials = 0 /\ <>[]check_value) => <>(w_pc = "done" /\ w_result)

C3_Witness ==
    /\ num_trials = 0 /\ w_pc = "done" /\ w_result
    /\ Len(answers) = MaxPolls - 1 /\ sleeps = MaxPolls - 2

\* ------------------------------------------------ claims on restore_mdev

\* The result restore_mdev held before it read line i.
ResultBefore(l, i) == IF i = 1 THEN 0 ELSE l[i - 1].resultAfter

IsRecord(e) == e.kind \notin {"blank", "malformed"}

CreateInvoked(e) == e.outcome # "none"

\* A record the claims call creatable: new to the Inventory, of a known
\* class and type, with capacity left.
Creatable(e) ==
    /\ IsRecord(e) /\ ~e.inInventory
    /\ e.classKnown /\ e.typeKnown /\ e.available > 0

\* A record that failed: unknown class, unknown type, exhausted capacity, or
\* an error raised by create.
FailedRecord(e) ==
    /\ IsRecord(e) /\ ~e.inInventory
    /\ \/ ~e.classKnown
       \/ ~e.typeKnown
       \/ e.available <= 0
       \/ e.outcome \in {"PermissionError", "OSError"}

CreatesOfLine(i) == {k \in 1..Len(creates) : creates[k].line = i}

\* C4: a record whose UUID is a key of the Inventory's device map is skipped:
\* create is not invoked for it and it does not set the failure result,
\* whether or not its class and type exist and whatever the capacity is.
C4_RegisteredSkipped ==
    \A i \in 1..Len(log) :
        (IsRecord(log[i]) /\ log[i].inInventory) =>
            /\ log[i].kind = "registered"
            /\ ~CreateInvoked(log[i])
            /\ CreatesOfLine(i) = {}
            /\ log[i].resultAfter = ResultBefore(log, i)

C4_Witness ==
    /\ r_pc = "returned" /\ result = 0 /\ creates = <<>>
    /\ \E i \in 1..Len(log) :
          log[i].inInventory /\ ~log[i].classKnown /\ log[i].kind = "registered"
    /\ \E i \in 1..Len(log) :
          /\ log[i].inInventory /\ log[i].typeKnown
          /\ log[i].available = 0 /\ log[i].kind = "registered"

\* C5 (as claimed): create(uuid) is never invoked for a UUID whose device
\* exists under the device root at the moment of the call, a device created
\* earlier in the same run included.
C5_NeverRecreated ==
    \A k \in 1..Len(creates) : ~creates[k].existed

\* C6: in a second restore of the same file by a new invocation, every record
\* whose device the first restore created is skipped: no create is invoked
\* for it and it is not counted as a failure.
C6_SecondRestoreSkips ==
    run = "second" =>
        \A j \in 1..Len(log) :
            (IsRecord(log[j]) /\
             \E i \in 1..Len(log1) :
                 log1[i].outcome = "created" /\ log1[i].uuid = log[j].uuid) =>
                /\ log[j].kind = "registered"
                /\ CreatesOfLine(j) = {}
                /\ log[j].resultAfter = ResultBefore(log, j)

C6_Witness ==
    /\ run = "second" /\ r_pc = "returned" /\ result = 0 /\ creates = <<>>
    /\ Len(log1) = 2 /\ Len(log) = 2
    /\ \A i \in 1..2 : log1[i].outcome = "created" /\ log[i].kind = "registered"
    /\ log1[1].uuid # log1[2].uuid

\* C7: a record whose UUID is not in the Inventory and whose (class, type)
\* exists with available_instances <= 0 when it is processed never leads to
\* a create call, and the result of the restore is 1.
C7_NoCapacityFails ==
    \A i \in 1..Len(log) :
        (IsRecord(log[i]) /\ ~log[i].inInventory /\ log[i].classKnown
            /\ log[i].typeKnown /\ log[i].available <= 0) =>
            /\ ~CreateInvoked(log[i])
            /\ CreatesOfLine(i) = {}
            /\ log[i].resultAfter = 1
            /\ result = 1
            /\ r_pc # "running" => ExitCode = 1

C7_Witness ==
    /\ r_pc = "returned" /\ result = 1 /\ creates = <<>>
    /\ Len(log) = 1 /\ log[1].kind = "nocap" /\ log[1].available = 0
    /\ ~log[1].inInventory

\* C8: for every creatable record create is invoked exactly once, on the
\* record's (class, type) and with the record's UUID; when every record of
\* the file is creatable or already present and every create succeeds, the
\* result is 0.
C8_CreatableCreatedOnce ==
    /\ \A i \in 1..Len(log) :
          Creatable(log[i]) =>
              /\ CreateInvoked(log[i])
              /\ Cardinality(CreatesOfLine(i)) = 1
              /\ \A k \in CreatesOfLine(i) :
                    /\ creates[k].uuid = split(ContentOf(input_file[i]))[1]
                    /\ creates[k].pci_address = split(ContentOf(input_file[i]))[2]
                    /\ creates[k].mdev_type = split(ContentOf(input_file[i]))[3]
    /\ (/\ r_pc = "returned"
        /\ \A i \in 1..Len(log) :
              IsRecord(log[i]) =>
                  \/ log[i].inInventory
                  \/ Creatable(log[i]) /\ log[i].outcome = "created")
       => result = 0

C8_Witness ==
    /\ r_pc = "returned" /\ result = 0 /\ run = "first"
    /\ Len(log) = 2 /\ Len(creates) = 2
    /\ log[1].outcome = "created" /\ log[2].outcome = "created"
    /\ creates[1].mdev_type # creates[2].mdev_type
    /\ fsDevices = UUIDs

\* C9: when restore_mdev returns normally its result is 1 exactly when some
\* record failed (unknown class, unknown type, exhausted capacity, or an
\* error from create), and 0 otherwise, skipped records included; once set,
\* the failure result is not reset by a later record.
C9_ResultIffFailure ==
    /\ result \in {0, 1}
    /\ result = ResultBefore(log, Len(log) + 1)
    /\ \A i \in 1..Len(log) :
          ResultBefore(log, i) = 1 => log[i].resultAfter = 1
    /\ r_pc = "returned" =>
          (result = 1 <=> \E i \in 1..Len(log) : FailedRecord(log[i]))

C9_Witness ==
    /\ r_pc = "returned" /\ result = 1 /\ Len(log) = 2
    /\ log[1].kind = "noclass" /\ log[1].resultAfter = 1
    /\ log[2].kind = "registered" /\ log[2].resultAfter = 1

\* C10: a failed record does not end the batch: restore_mdev returns only
\* after reading every line of the file, in file order, and a valid record
\* that follows a failed one is still created.
C10_FailuresDoNotAbort ==
    /\ Len(log) = pos
    /\ r_pc = "returned" => pos = Len(input_file)
    /\ r_pc = "aborted" => log[pos].kind = "malformed"
    /\ \A i \in 1..Len(log) :
          /\ IsRecord(log[i]) =>
                <<log[i].uuid, log[i].pci_address, log[i].mdev_type>>
                    = split(ContentOf(input_file[i]))
          /\ (i > 1 /\ FailedRecord(log[i - 1]) /\ Creatable(log[i])) =>
                CreateInvoked(log[i])

C10_Witness ==
    /\ r_pc = "returned" /\ result = 1 /\ Len(log) = 2
    /\ log[1].outcome = "PermissionError"
    /\ log[2].outcome = "created"
    /\ Len(creates) = 2

\* ------------------------------------- claims on the reservation format

\* Read off the text of a line: the place of its first '#' (past the end when
\* there is none) and the places where a token starts before it.
HashAt(line) ==
    IF \E j \in 1..Len(line) : line[j] = "#"
    THEN CHOOSE j \in 1..Len(line) : line[j] = "#" /\ \A k \in 1..(j - 1) : line[k] # "#"
    ELSE Len(line) + 1

TokenStarts(line) ==
    {j \in 1..(HashAt(line) - 1) :
        line[j] \notin Whitespace /\ (j = 1 \/ line[j - 1] \in Whitespace)}

LineTokens(line) == Cardinality(TokenStarts(line))

\* A name without whitespace and without '#'.
CleanName(name) ==
    \A j \in 1..Len(name) : name[j] \notin Whitespace \cup {"#"}

CleanInventory ==
    \A u \in fsDevices :
        CleanName(u) /\ CleanName(fsDevType[u][1]) /\ CleanName(fsDevType[u][2])

\* The records that the restore parser has read so far.
ParsedRecords == SelectSeq(log, IsRecord)

\* The devices of the inventory in the order of the device map.
InventoryOrder == sorted(fsDevices)

\* What the checks of lines 444-464 make of a record, from what was true of
\* it when it was read.
ExpectedKind(e) ==
    IF e.inInventory THEN "registered"
    ELSE IF ~e.classKnown THEN "noclass"
    ELSE IF ~e.typeKnown THEN "notype"
    ELSE IF e.available <= 0 THEN "nocap"
    ELSE "create"

\* C11: a data line that, after comment removal, does not split into exactly
\* three tokens aborts restore_mdev at once with InvalidMdevFileFormat: no
\* later line is read, no create follows it, whatever the lines before and
\* after it are, and the exit code is 1.
C11_MalformedAborts ==
    \A i \in 1..pos :
        LineTokens(input_file[i]) \notin {0, 3} =>
            /\ i = pos
            /\ Len(log) = i
            /\ log[i].kind = "malformed"
            /\ r_pc = "aborted"
            /\ ExitCode = 1
            /\ CreatesOfLine(i) = {}
            /\ \A k \in 1..Len(creates) : creates[k].line < i

C11_Witness ==
    /\ r_pc = "aborted" /\ pos = 1 /\ creates = <<>> /\ result = 0
    /\ input_file = <<TwoTokenLine, FormatLine(UuidA, ClassP, TypeX)>>
    /\ fsDevices = {} /\ fsAvail[<<ClassP, TypeX>>] > 0

\* C13: everything from the first '#' of a line on is a comment, and a line
\* that is empty after stripping and comment removal produces no record, no
\* create, no failure and no format error; three tokens followed by a
\* comment are processed as the same three tokens without it.
C13_CommentsIgnored ==
    \A i \in 1..Len(log) :
        /\ LineTokens(input_file[i]) = 0 =>
              /\ log[i].kind = "blank"
              /\ CreatesOfLine(i) = {}
              /\ log[i].resultAfter = ResultBefore(log, i)
              /\ r_pc = "aborted" => i < pos
        /\ input_file[i] = CommentedLine =>
              /\ <<log[i].uuid, log[i].pci_address, log[i].mdev_type>>
                    = <<UuidB, ClassP, TypeX>>
              /\ log[i].kind = ExpectedKind(log[i])
              /\ log[i].kind = "create" <=> CreatesOfLine(i) # {}

C13_Witness ==
    /\ r_pc = "returned" /\ result = 0
    /\ input_file = <<CommentLine, CommentedLine>>
    /\ log[1].kind = "blank" /\ log[2].outcome = "created"
    /\ fsDevices = {UuidB}

\* ----------------------------------------------- claims on MdevType.create

\* C17: create writes the UUID and only then reads the type's attributes
\* again: after a create that returns normally the cached
\* available_instances is what the pseudo-filesystem holds after the write,
\* and the next record of the same type is checked against it; a failed
\* write leaves the cached attributes as they were.
C17_CreateThenUpdate ==
    /\ \A c \in DOMAIN cached_supported_mdev_types :
          \A t \in DOMAIN cached_supported_mdev_types[c].types :
              cached_supported_mdev_types[c].types[t] = fsAvail[<<c, t>>]
    /\ \A i \in 1..(Len(log) - 1) :
          (/\ CreateInvoked(log[i]) /\ IsRecord(log[i + 1]) /\ log[i + 1].typeKnown
           /\ log[i + 1].pci_address = log[i].pci_address
           /\ log[i + 1].mdev_type = log[i].mdev_type) =>
              log[i + 1].available =
                  IF log[i].outcome = "created"
                  THEN log[i].available - 1 ELSE log[i].available

C17_Witness ==
    /\ Len(log) = 2
    /\ log[1].outcome = "created" /\ log[1].available = 1
    /\ log[2].kind = "nocap" /\ log[2].available = 0
    /\ log[2].mdev_type = log[1].mdev_type
    /\ cached_supported_mdev_types[ClassP].types[log[1].mdev_type] = 0

\* C20: restore is not atomic: when restore_mdev aborts on a malformed line,
\* the creates made for the records before it have taken effect and stay,
\* while the command reports failure.
C20_AbortKeepsCreated ==
    r_pc = "aborted" =>
        /\ ExitCode = 1
        /\ \A i \in 1..(pos - 1) :
              log[i].outcome = "created" =>
                  /\ ~log[i].inFs
                  /\ log[i].uuid \in fsDevices
                  /\ fsAvail[<<log[i].pci_address, log[i].mdev_type>>] < log[i].available

C20_Witness ==
    /\ r_pc = "aborted" /\ pos = 2 /\ result = 0 /\ run = "first"
    /\ log[1].outcome = "created" /\ log[1].uuid \in fsDevices
    /\ Len(creates) = 1

\* C12: when no UUID, class address or type name of the inventory holds
\* whitespace or '#', the restore parser reading the file that save_mdev
\* wrote meets no format error and reads exactly the (uuid, class address,
\* type name) triples of the cached devices, in the order of the device map:
\* at every point the records read are a prefix of them, and at the end of
\* the file they are all of them.
C12_RoundTrip ==
    (output_file # <<>> /\ CleanInventory) =>
        /\ r_pc # "aborted"
        /\ Len(ParsedRecords) <= Len(InventoryOrder)
        /\ \A i \in 1..Len(ParsedRecords) :
               /\ i <= Len(InventoryOrder)
               /\ ParsedRecords[i].uuid = InventoryOrder[i]
               /\ ParsedRecords[i].pci_address = fsDevType[InventoryOrder[i]][1]
               /\ ParsedRecords[i].mdev_type = fsDevType[InventoryOrder[i]][2]
        /\ r_pc = "returned" => Len(ParsedRecords) = Len(InventoryOrder)

\* Three devices, one of them under a class that the class root does not
\* list, saved and read back to the end of the file.
C12_Witness ==
    /\ CleanInventory
    /\ fsDevices = SaveUUIDs
    /\ \E u \in fsDevices : fsDevType[u] = <<ClassQ, TypeZ>>
    /\ \E u \in fsDevices : fsDevType[u] = <<ClassP, TypeY>>
    /\ Len(output_file) = 5
    /\ r_pc = "returned"
    /\ Len(ParsedRecords) = 3
    /\ ParsedRecords[2].uuid = UuidAB
\* The filter as the claim words it: "0x" prepended when it lacks the prefix.
ExpectedVendor ==
    IF Len(vendor_arg) >= 2 /\ vendor_arg[1] = "0" /\ vendor_arg[2] = "x"
    THEN vendor_arg
    ELSE <<"0", "x">> \o vendor_arg

\* The value a vendor file holds: its content up to the trailing newlines.
FileValue(file) ==
    LET content == file.content
        n == CHOOSE k \in 0..Len(content) :
                 /\ k = 0 \/ content[k] # "\n"
                 /\ \A j \in (k + 1)..Len(content) : content[j] = "\n"
    IN SubSeq(content, 1, n)

\* A vendor file the claim includes a device for: absent, or holding the
\* filter value.
IncludedFile(file) == ~file.exists \/ FileValue(file) = ExpectedVendor

\* The bus devices the claim includes, on the bus as it is now.
IncludedDevices == {dev \in DOMAIN pciVendor : IncludedFile(pciVendor[dev])}

YieldedSet == {yielded[i] : i \in 1..Len(yielded)}

\* C14: called with a vendor filter, each_pci_device_and_path yields in
\* increasing lexicographic order; it visits the devices of the listing in
\* order, and a visited device has been yielded if and only if its vendor
\* file, as it was when the device was visited, was absent or held the
\* filter value with "0x" prepended when the filter lacks it.  On a bus that
\* no other process changes during the scan, the devices yielded at the end
\* are exactly the bus devices whose vendor file is absent or holds that
\* value.
C14_VendorFilter ==
    vendor_arg # <<>> =>
        /\ \A i, j \in 1..Len(yielded) : i < j => str_lt(yielded[i], yielded[j])
        /\ Len(tested) = pci_pos
        /\ \A i \in 1..Len(tested) :
               /\ tested[i].dev = pci_listing[i]
               /\ tested[i].dev \in YieldedSet <=> IncludedFile(tested[i].file)
        /\ YieldedSet \subseteq {tested[i].dev : i \in 1..Len(tested)}
        /\ p_pc = "done" => pci_pos = Len(pci_listing)
        /\ (p_pc = "done" /\ ~pci_changed) => YieldedSet = IncludedDevices

\* A finished scan with the filter "10de" of three devices on a bus that
\* did not change: one without a vendor file and one of vendor 0x10de are
\* yielded, one of another vendor is not.
C14_Witness ==
    /\ p_pc = "done"
    /\ ~pci_changed
    /\ vendor_arg = NVIDIA_VENDOR
    /\ DOMAIN pciVendor = PciNames
    /\ Len(yielded) = 2
    /\ \E dev \in YieldedSet : ~pciVendor[dev].exists
    /\ \E dev \in YieldedSet :
           pciVendor[dev].exists /\ pciVendor[dev].content[Len(pciVendor[dev].content)] = "\n"
    /\ \E dev \in PciNames \ YieldedSet : pciVendor[dev].exists

\* C19: whenever the wait-hook has answered false for a path, the operation
\* that asked ends in an error and does not continue as if the path
\* existed: the scan does not return normally, and a device for whose path
\* or vendor path the hook answered false is not yielded.
C19_HookFailureIsError ==
    \A i \in 1..Len(hook_results) :
        ~hook_results[i].result =>
            /\ p_pc # "done"
            /\ Len(hook_results[i].path) >= 2 => hook_results[i].path[2] \notin YieldedSet

\* The listing a map's scan read, when it has been scanned.
LoadListing(history) == history[1]

\* C15: a class's loaded supported-types map holds every type that its
\* mdev_supported_types directory listed when the map was loaded, and the
\* loaded class map and device map hold every entry their roots listed.
C15_NeverPartiallyLoaded ==
    /\ \A c \in each_mdev_device_class_pci_address :
           cached_supported_mdev_types[c].loaded =>
               DOMAIN cached_supported_mdev_types[c].types = LoadListing(scans.types[c])
    /\ cached_mdev_device_classes.loaded =>
           cached_mdev_device_classes.keys = LoadListing(scans.classes)
    /\ cached_mdev_devices.loaded =>
           cached_mdev_devices.keys = LoadListing(scans.devices)

\* C16: each map is scanned at most once; a loaded device map or class map
\* is the listing its scan read, whatever has been created or destroyed
\* since, and a loaded supported-types map holds types of the listing its
\* scan read, all of them when every type's attributes can be read.
C16_ScannedOnce ==
    /\ Len(scans.devices) <= 1
    /\ Len(scans.classes) <= 1
    /\ cached_mdev_devices.loaded =>
           Len(scans.devices) = 1 /\ cached_mdev_devices.keys = scans.devices[1]
    /\ cached_mdev_device_classes.loaded =>
           Len(scans.classes) = 1 /\ cached_mdev_device_classes.keys = scans.classes[1]
    /\ \A c \in each_mdev_device_class_pci_address :
           /\ Len(scans.types[c]) <= 1
           /\ cached_supported_mdev_types[c].loaded =>
                  /\ Len(scans.types[c]) = 1
                  /\ DOMAIN cached_supported_mdev_types[c].types \subseteq scans.types[c][1]
                  /\ (\A t \in scans.types[c][1] : <<c, t>> \notin fsUnreadable) =>
                         DOMAIN cached_supported_mdev_types[c].types = scans.types[c][1]

\* The device map was loaded when device a existed; since then this process
\* has created device b through the Inventory and device a has been
\* destroyed, and the map still holds a and not b.
C16_Witness ==
    /\ cached_mdev_devices.loaded
    /\ cached_mdev_devices.keys = {UuidA}
    /\ fsDevices = {UuidB}
    /\ \E e \in touched : e.op = "write"
    /\ cached_supported_mdev_types[ClassP].loaded
    /\ DOMAIN cached_supported_mdev_types[ClassP].types = {TypeX, TypeY}

\* C18: the wait-hook has been invoked on the path of every access the
\* Inventory has made to the pseudo-filesystem, before the access.
C18_HookBeforeAccess ==
    \A e \in touched : e.hooked

\* The type a record or a create call is for.
TypeOf(e) == <<e.pci_address, e.mdev_type>>

\* The create calls of this run on a type, and the records before line i
\* whose create on the type succeeded.
CreateCallsOn(tp) == {k \in 1..Len(creates) : TypeOf(creates[k]) = tp}
SucceededBefore(tp, i) ==
    {j \in 1..(i - 1) : log[j].outcome = "created" /\ TypeOf(log[j]) = tp}

\* C21 as stated: within one run the create calls made on a type are never
\* more than the type's available_instances at the start of the run, and
\* once as many creates have succeeded on a type as it had capacity, every
\* further record for the type is a capacity failure and create is not
\* called for it.
C21_CallsWithinCapacity ==
    \A tp \in TypePaths :
        /\ Cardinality(CreateCallsOn(tp)) <= avail_at_start[tp]
        /\ \A i \in 1..Len(log) :
              (IsRecord(log[i]) /\ TypeOf(log[i]) = tp
                  /\ Cardinality(SucceededBefore(tp, i)) = avail_at_start[tp]) =>
                  log[i].kind = "nocap" /\ ~CreateInvoked(log[i])

\* C21, amended: within one run the creates that succeed on a type are never
\* more than the type's available_instances at the start of the run, and
\* create is called on a type only while fewer creates have succeeded on it
\* than that; once as many have succeeded as the type had capacity, every
\* further record for the type whose UUID is not in the device map is a
\* capacity failure: create is not called for it and the result is 1.
C21_CreatedWithinCapacity ==
    \A tp \in TypePaths :
        /\ Cardinality(SucceededBefore(tp, Len(log) + 1)) <= avail_at_start[tp]
        /\ \A k \in CreateCallsOn(tp) :
              Cardinality(SucceededBefore(tp, creates[k].line)) < avail_at_start[tp]
        /\ \A i \in 1..Len(log) :
              (IsRecord(log[i]) /\ TypeOf(log[i]) = tp /\ ~log[i].inInventory
                  /\ Cardinality(SucceededBefore(tp, i)) = avail_at_start[tp]) =>
                  /\ log[i].kind = "nocap"
                  /\ ~CreateInvoked(log[i])
                  /\ CreatesOfLine(i) = {}
                  /\ log[i].resultAfter = 1

\* A type that started with one available instance: the first record's
\* create succeeded and the second record, for another UUID, was refused for
\* lack of capacity.
C21_Witness ==
    /\ r_pc = "returned"
    /\ avail_at_start[<<ClassP, TypeX>>] = 1
    /\ Len(log) = 2
    /\ TypeOf(log[1]) = <<ClassP, TypeX>> /\ log[1].outcome = "created"
    /\ TypeOf(log[2]) = <<ClassP, TypeX>> /\ log[2].kind = "nocap"
    /\ log[1].uuid # log[2].uuid
    /\ Len(creates) = 1

\* C22: when restore_mdev reads the file that save_mdev wrote while the
\* device root holds the devices that were saved, every record it reads is
\* skipped as already registered, whether or not its class address and type
\* name are in the class map; create is never invoked, the result stays 0 and
\* the device root keeps exactly the saved devices.  When no name holds
\* whitespace or '#', the run reads one record per device and returns with
\* exit code 0.
C22_SaveRestoreNoOp ==
    output_file # <<>> =>
        /\ creates = <<>>
        /\ result = 0
        /\ \A i \in 1..Len(log) :
              IsRecord(log[i]) =>
                  /\ log[i].kind = "registered"
                  /\ log[i].inInventory
                  /\ ~CreateInvoked(log[i])
                  /\ log[i].resultAfter = 0
        /\ Len(output_file) = Cardinality(fsDevices) + 2
        /\ \A i \in 3..Len(output_file) :
              \E u \in fsDevices :
                  output_file[i] = FormatLine(u, fsDevType[u][1], fsDevType[u][2])
        /\ CleanInventory =>
              /\ r_pc # "aborted"
              /\ r_pc = "returned" =>
                    /\ ExitCode = 0
                    /\ Len(ParsedRecords) = Cardinality(fsDevices)

\* A finished restore of a saved file of three devices, one of them under a
\* class that the class map does not hold and one under a listed type: all
\* three records were skipped.
C22_Witness ==
    /\ r_pc = "returned"
    /\ Len(output_file) = 5
    /\ Len(ParsedRecords) = 3
    /\ \E i \in 1..Len(log) :
          /\ log[i].kind = "registered"
          /\ log[i].pci_address = ClassQ
          /\ ~log[i].classKnown
    /\ \E i \in 1..Len(log) :
          log[i].kind = "registered" /\ TypeOf(log[i]) = <<ClassP, TypeX>>
    /\ creates = <<>>
    /\ result = 0
====
